---- MODULE Spec2Model ----
(***************************************************************************)
(* A model of the veterinary ration calculator (src/src/main.py): one      *)
(* invocation of the command line program, which dispatches to cmd_check,  *)
(* cmd_pearson or cmd_dilute.                                              *)
(*                                                                         *)
(* Numbers.  The program computes with floats.  A float is modelled as an  *)
(* exact rational [k |-> "num", n, d] in lowest terms with d > 0, or as    *)
(* the value NaN (float('nan'), an empty table cell).  Arithmetic on       *)
(* rationals is exact: the rounding error of the binary format and the     *)
(* infinities are outside the model.  NaN follows IEEE: it propagates      *)
(* through arithmetic and every ordered comparison with it is false.       *)
(* Dividing two Python floats by zero raises ZeroDivisionError.            *)
(***************************************************************************)
EXTENDS Integers, Sequences, FiniteSets

VARIABLES
  args,        \* the parsed command line (argparse namespace)
  fs,          \* the two data files the paths of args name
  pc,          \* position in the program
  L,           \* the local variables of the running command
  stdout,      \* what was printed, one tag per print call
  stderr,      \* the message the process ended with, "" while there is none
  exit_code,   \* <<status>> once the process has ended, <<>> before
  prev         \* the outcome of the previous completed check run (two-run specification)

vars == <<args, fs, pc, L, stdout, stderr, exit_code, prev>>

-----------------------------------------------------------------------------
(* Floats *)

RECURSIVE Gcd(_, _)
Gcd(a, b) == IF b = 0 THEN a ELSE Gcd(b, a % b)

Abs(i) == IF i < 0 THEN -i ELSE i

NaN == [k |-> "nan", n |-> 0, d |-> 1]

\* n/d in lowest terms, d > 0
Rat(n, d) ==
  LET s == IF d < 0 THEN -1 ELSE 1
      g == Gcd(Abs(n), Abs(d))
  IN  [k |-> "num", n |-> (s * n) \div g, d |-> (s * d) \div g]

Num(i) == [k |-> "num", n |-> i, d |-> 1]

IsNaN(x) == x.k = "nan"
IsZero(x) == x.k = "num" /\ x.n = 0

FAdd(a, b) == IF IsNaN(a) \/ IsNaN(b) THEN NaN ELSE Rat(a.n * b.d + b.n * a.d, a.d * b.d)
FSub(a, b) == IF IsNaN(a) \/ IsNaN(b) THEN NaN ELSE Rat(a.n * b.d - b.n * a.d, a.d * b.d)
FMul(a, b) == IF IsNaN(a) \/ IsNaN(b) THEN NaN ELSE Rat(a.n * b.n, a.d * b.d)
\* a / b for a divisor that is not zero (the callers test IsZero first)
FDiv(a, b) == IF IsNaN(a) \/ IsNaN(b) THEN NaN ELSE Rat(a.n * b.d, a.d * b.n)
FAbs(a) == IF IsNaN(a) THEN NaN ELSE Rat(Abs(a.n), a.d)

FLe(a, b) == ~IsNaN(a) /\ ~IsNaN(b) /\ a.n * b.d <= b.n * a.d
FLt(a, b) == ~IsNaN(a) /\ ~IsNaN(b) /\ a.n * b.d < b.n * a.d
FGe(a, b) == FLe(b, a)
FGt(a, b) == FLt(b, a)

Pow10(digits) == IF digits = 1 THEN 10 ELSE 100

\* f"{x:.<digits>f}": the values x may be shown as.  A value halfway between
\* two decimals goes either way (the binary float nearest to it decides).
Fmt(x, digits) ==
  IF IsNaN(x) THEN {NaN}
  ELSE LET p == Pow10(digits)
           m == x.n * p
           q == m \div x.d
           r == m % x.d
       IN  IF 2 * r < x.d THEN {Rat(q, p)}
           ELSE IF 2 * r > x.d THEN {Rat(q + 1, p)}
           ELSE {Rat(q, p), Rat(q + 1, p)}

-----------------------------------------------------------------------------
(* Process state *)

\* exit_code while the process has not ended
Running == <<>>

NoLocals == [cmd |-> "none"]

NoRun == [run |-> FALSE]

Range(s) == { s[i] : i \in 1..Len(s) }

\* the three warnings cmd_check prints
WarningTags == {"Warning: Total diet quantity", "Constraint Warning", "Ca/P Ratio warning"}

\* sys.exit(msg): the message goes to stderr and the status is 1
SysExit(msg) ==
  /\ stderr' = msg
  /\ exit_code' = <<1>>
  /\ pc' = "exited"

\* an exception nothing catches: the interpreter prints the traceback and ends with status 1
Uncaught(exc) ==
  /\ stderr' = exc
  /\ exit_code' = <<1>>
  /\ pc' = "exited"

\* the command function returns, main returns, the interpreter ends with status 0
Return ==
  /\ stderr' = stderr
  /\ exit_code' = <<0>>
  /\ pc' = "exited"

-----------------------------------------------------------------------------
(* Inputs of pearson and dilute: argparse type=float *)

PearsonValues == {Num(8), Num(14), Num(20), NaN}

DiluteValues == {Num(-5), Num(0), Num(5), Num(20), NaN}

PearsonArgs ==
  { [command |-> "pearson", target |-> t, feed1 |-> a, feed2 |-> b] :
      t \in PearsonValues, a \in PearsonValues, b \in PearsonValues }

DiluteArgs ==
  { [command |-> "dilute", start |-> s, target |-> t] :
      s \in DiluteValues, t \in DiluteValues }

-----------------------------------------------------------------------------
(* cmd_pearson *)

PearsonGuard(target, f1, f2) ==
  (FLe(f1, target) /\ FLe(target, f2)) \/ (FLe(f2, target) /\ FLe(target, f1))

cmd_pearson ==
  /\ pc = "pearson"
  /\ LET target == args.target
         f1 == args.feed1
         f2 == args.feed2
         diff1 == FAbs(FSub(f2, target))
         diff2 == FAbs(FSub(f1, target))
         total_parts == FAdd(diff1, diff2)
     IN  IF ~PearsonGuard(target, f1, f2)
         THEN /\ SysExit("Error: Target value must be between the two feed values.")
              /\ UNCHANGED <<L, stdout>>
         ELSE IF IsZero(total_parts)
         THEN /\ Uncaught("ZeroDivisionError")
              /\ L' = [cmd |-> "pearson", diff1 |-> diff1, diff2 |-> diff2,
                       total_parts |-> total_parts]
              /\ UNCHANGED stdout
         ELSE /\ L' = [cmd |-> "pearson", diff1 |-> diff1, diff2 |-> diff2,
                       total_parts |-> total_parts,
                       pct1 |-> FMul(FDiv(diff1, total_parts), Num(100)),
                       pct2 |-> FMul(FDiv(diff2, total_parts), Num(100))]
              /\ stdout' = stdout \o <<"pearson header", "Feed 1 parts", "Feed 2 parts",
                                       "rule", "Mix parts">>
              /\ Return
  /\ UNCHANGED <<args, fs, prev>>

-----------------------------------------------------------------------------
(* cmd_dilute *)

cmd_dilute ==
  /\ pc = "dilute"
  /\ LET start == args.start
         target == args.target
     IN  IF FGe(target, start)
         THEN /\ SysExit("Error: Target concentration must be lower than start concentration for dilution.")
              /\ UNCHANGED <<L, stdout>>
         ELSE IF FLe(target, Num(0))
         THEN /\ SysExit("Error: Target cannot be zero.")
              /\ UNCHANGED <<L, stdout>>
         ELSE LET dilution_factor == FDiv(start, target)
                  water_parts == FSub(dilution_factor, Num(1))
              IN  /\ L' = [cmd |-> "dilute", dilution_factor |-> dilution_factor,
                           water_parts |-> water_parts]
                  /\ stdout' = stdout \o <<"dilute header", "Start and target",
                                           "Dilution Factor", "rule", "Add water parts">>
                  /\ Return
  /\ UNCHANGED <<args, fs, prev>>

-----------------------------------------------------------------------------
(* The data files.  The tables hold the identifiers as load_data leaves    *)
(* them (strings).  A cell is a float, NaN when empty, or the text '-'.    *)

Dash == [k |-> "dash", n |-> 0, d |-> 1]

StandardsA ==
  { [Animal_ID |-> "A1", Description |-> "Grower pig", Tolerance_Pct |-> Num(10),
     ME_Target |-> Num(3), CP_Target |-> Num(27), Ca_Target |-> Rat(3, 4),
     P_Target |-> Rat(9, 20), Lysine_Target |-> Rat(33, 20)],
    [Animal_ID |-> "A2", Description |-> "Finisher pig", Tolerance_Pct |-> Num(5),
     ME_Target |-> Num(3), CP_Target |-> Num(27), Ca_Target |-> Rat(3, 4),
     P_Target |-> Rat(9, 20), Lysine_Target |-> Dash],
    [Animal_ID |-> "A3", Description |-> "Sow", Tolerance_Pct |-> Num(10),
     ME_Target |-> Num(3), CP_Target |-> Num(27), Ca_Target |-> Rat(3, 4),
     P_Target |-> Rat(9, 20), Lysine_Target |-> NaN],
    [Animal_ID |-> "A4", Description |-> "Dry cow", Tolerance_Pct |-> Num(10),
     ME_Target |-> Rat(33, 10), CP_Target |-> Num(9), Ca_Target |-> Num(0),
     P_Target |-> Rat(3, 10), Lysine_Target |-> Rat(3, 10)] }

\* a standards table without the optional Lysine_Target column
StandardsB ==
  { [Animal_ID |-> "B1", Description |-> "Broiler", Tolerance_Pct |-> Num(10),
     ME_Target |-> Num(3), CP_Target |-> Num(27), Ca_Target |-> Rat(3, 4),
     P_Target |-> Rat(9, 20)] }

FeedsTable ==
  { [Feed_ID |-> "F0", Name |-> "Filler", Max_Inclusion_Pct |-> Num(10),
     ME_per_kg |-> Num(0), CP_Pct |-> Num(0), Ca_Pct |-> Num(0), P_Pct |-> Num(0),
     Lysine_Pct |-> Num(0)],
    [Feed_ID |-> "F1", Name |-> "Corn", Max_Inclusion_Pct |-> Num(60),
     ME_per_kg |-> Rat(33, 10), CP_Pct |-> Num(9), Ca_Pct |-> Num(0), P_Pct |-> Rat(3, 10),
     Lysine_Pct |-> Rat(3, 10)],
    [Feed_ID |-> "F2", Name |-> "Soybean meal", Max_Inclusion_Pct |-> Num(60),
     ME_per_kg |-> Rat(12, 5), CP_Pct |-> Num(45), Ca_Pct |-> Rat(3, 2), P_Pct |-> Rat(3, 5),
     Lysine_Pct |-> Num(3)],
    [Feed_ID |-> "F3", Name |-> "Limestone", Max_Inclusion_Pct |-> Num(5),
     ME_per_kg |-> Num(0), CP_Pct |-> Num(0), Ca_Pct |-> Num(38), P_Pct |-> Num(0),
     Lysine_Pct |-> Num(0)] }

Missing == [kind |-> "missing"]
Garbled == [kind |-> "garbled"]
Table(rows) == [kind |-> "table", rows |-> rows]

FsStates ==
  { [standards |-> Table(StandardsA), feeds |-> Table(FeedsTable)],
    [standards |-> Table(StandardsB), feeds |-> Table(FeedsTable)],
    [standards |-> Missing, feeds |-> Table(FeedsTable)],
    [standards |-> Table(StandardsA), feeds |-> Missing],
    [standards |-> Table(StandardsA), feeds |-> Garbled] }

AnimalIds == {"A1", "A2", "A3", "A4", "B1", "A9"}

-----------------------------------------------------------------------------
(* The diet string.  args.diet is held as the list args.diet.split(',')    *)
(* gives, each token as the list token.split(':') gives.                   *)

ValueError == [k |-> "ValueError", n |-> 0, d |-> 1]

\* float(qty_str)
float(qty_str) ==
  CASE qty_str = "50" -> Num(50)
    [] qty_str = "100" -> Num(100)
    [] qty_str = "-50" -> Num(-50)
    [] qty_str = "nan" -> NaN
    [] OTHER -> ValueError

MaxEntries == 2

Tokens ==
  { <<"F0", "50">>, <<"F1", "50">>, <<"F1", "100">>, <<"F2", "50">>, <<"F2", "-50">>,
    <<"F1", "nan">>, <<"F3", "50">>,
    <<"F1">>, <<"F1", "50", "7">>, <<"F1", "abc">>, <<"F9", "50">> }

PairTokens == { <<"F0", "50">>, <<"F1", "50">>, <<"F1", "100">>, <<"F1">> }

Diets(tokens) == UNION { [1..n -> tokens] : n \in 1..MaxEntries }

\* the animals of the runs of the two-run specification
PairAnimalIds == {"A1", "A4", "A9"}

CheckArgs(animals, tokens) ==
  { [command |-> "check", animal |-> a, diet |-> d] : a \in animals, d \in Diets(tokens) }

-----------------------------------------------------------------------------
(* load_data *)

load_data ==
  /\ pc = "check"
  /\ IF fs.standards.kind = "missing"
     THEN /\ SysExit("Error: Standards file not found")
          /\ UNCHANGED L
     ELSE IF fs.feeds.kind = "missing"
     THEN /\ SysExit("Error: Feeds file not found")
          /\ UNCHANGED L
     ELSE IF fs.standards.kind = "garbled" \/ fs.feeds.kind = "garbled"
     THEN /\ SysExit("Error reading CSV files")
          /\ UNCHANGED L
     ELSE /\ L' = [cmd |-> "check", standards_df |-> fs.standards.rows,
                   feeds_df |-> fs.feeds.rows]
          /\ pc' = "animal"
          /\ UNCHANGED <<stderr, exit_code>>
  /\ UNCHANGED <<args, fs, stdout, prev>>

-----------------------------------------------------------------------------
(* cmd_check *)

\* df[df[key] == id]: the rows whose identifier equals id
Rows(df, key, id) == { r \in df : r[key] = id }

\* 1. Validate Animal ID; the start of 2.
cmd_check_animal ==
  /\ pc = "animal"
  /\ LET animal_row == Rows(L.standards_df, "Animal_ID", args.animal)
     IN  IF animal_row = {}
         THEN /\ SysExit("Error: Animal ID not found.")
              /\ UNCHANGED L
         ELSE /\ L' = [cmd |-> "check", standards_df |-> L.standards_df,
                       feeds_df |-> L.feeds_df,
                       animal_std |-> CHOOSE r \in animal_row : TRUE,
                       diet_data |-> <<>>, total_qty |-> Num(0)]
              /\ pc' = "parse"
              /\ UNCHANGED <<stderr, exit_code>>
  /\ UNCHANGED <<args, fs, stdout, prev>>

\* 2. one pass of the loop over diet_entries
cmd_check_parse ==
  /\ pc = "parse"
  /\ Len(L.diet_data) < Len(args.diet)
  /\ LET entry == args.diet[Len(L.diet_data) + 1]
         qty == IF Len(entry) = 2 THEN float(entry[2]) ELSE ValueError
         f_id == entry[1]
         feed_row == Rows(L.feeds_df, "Feed_ID", f_id)
     IN  IF qty = ValueError
         THEN /\ SysExit("Error: Invalid diet format")
              /\ UNCHANGED L
         ELSE IF feed_row = {}
         THEN /\ SysExit("Error: Feed ID not found.")
              /\ UNCHANGED L
         ELSE LET feed_data == CHOOSE r \in feed_row : TRUE
              IN  /\ L' = [L EXCEPT
                             !.diet_data = Append(@, [Feed_ID |-> feed_data.Feed_ID,
                                                      Name |-> feed_data.Name,
                                                      Qty |-> qty, Data |-> feed_data]),
                             !.total_qty = FAdd(@, qty)]
                  /\ UNCHANGED <<pc, stderr, exit_code>>
  /\ UNCHANGED <<args, fs, stdout, prev>>

NotNormalized(total_qty) == FGt(FAbs(FSub(total_qty, Num(100))), Rat(1, 10))

\* the warning for non-100% totals; the start of 3.
cmd_check_warn ==
  /\ pc = "parse"
  /\ Len(L.diet_data) = Len(args.diet)
  /\ stdout' = stdout
               \o (IF NotNormalized(L.total_qty)
                   THEN <<"Warning: Total diet quantity">> ELSE <<>>)
               \o <<"Ration Analysis header">>
  /\ L' = [cmd |-> "check", standards_df |-> L.standards_df, feeds_df |-> L.feeds_df,
           animal_std |-> L.animal_std, diet_data |-> L.diet_data,
           total_qty |-> L.total_qty,
           total_nutrients |-> [ME |-> Num(0), CP |-> Num(0), Ca |-> Num(0),
                                P |-> Num(0), Lysine |-> Num(0)],
           table_rows |-> <<>>]
  /\ pc' = "contrib"
  /\ UNCHANGED <<args, fs, stderr, exit_code, prev>>

\* a contribution that forgets the division by 100
ContributionNoScale(q, value) == FMul(q, value)

\* (q * value) / 100
Contribution(q, value) == FDiv(FMul(q, value), Num(100))

\* 3. one pass of the loop over diet_data
cmd_check_contrib ==
  /\ pc = "contrib"
  /\ Len(L.table_rows) < Len(L.diet_data)
  /\ LET item == L.diet_data[Len(L.table_rows) + 1]
         f == item.Data
         q == item.Qty
         me_contrib == Contribution(q, f.ME_per_kg)
         cp_contrib == Contribution(q, f.CP_Pct)
         ca_contrib == Contribution(q, f.Ca_Pct)
         p_contrib == Contribution(q, f.P_Pct)
         lys_contrib == Contribution(q, f.Lysine_Pct)
     IN  /\ stdout' = stdout \o (IF FGt(q, f.Max_Inclusion_Pct)
                                 THEN <<"Constraint Warning">> ELSE <<>>)
         /\ \E qs \in Fmt(q, 1), mes \in Fmt(me_contrib, 1), cps \in Fmt(cp_contrib, 2),
               cas \in Fmt(ca_contrib, 2), ps \in Fmt(p_contrib, 2) :
              L' = [L EXCEPT
                      !.total_nutrients =
                         [ME |-> FAdd(@.ME, me_contrib), CP |-> FAdd(@.CP, cp_contrib),
                          Ca |-> FAdd(@.Ca, ca_contrib), P |-> FAdd(@.P, p_contrib),
                          Lysine |-> FAdd(@.Lysine, lys_contrib)],
                      !.table_rows = Append(@, [Feed |-> f.Name, Qty |-> qs, ME |-> mes,
                                                CP |-> cps, Ca |-> cas, P |-> ps])]
  /\ UNCHANGED <<args, fs, pc, stderr, exit_code, prev>>

\* a ratio guarded by den != 0 in place of den > 0
RatioNonzero(num, den) == IF IsZero(den) THEN Num(0) ELSE FDiv(num, den)

\* num / den if den > 0 else 0
Ratio(num, den) == IF FGt(den, Num(0)) THEN FDiv(num, den) ELSE Num(0)

\* animal_std.get('Lysine_Target', '-')
Get(row, key, default) == IF key \in DOMAIN row THEN row[key] ELSE default

Labels == <<"ME", "CP", "Ca", "P", "Lysine">>

\* the third column of comparison_data
Targets(animal_std) ==
  <<animal_std.ME_Target, animal_std.CP_Target, animal_std.Ca_Target, animal_std.P_Target,
    Get(animal_std, "Lysine_Target", Dash)>>

\* a verdict that starts at FAIL when a warning was printed
InitialStatusWarned == IF Range(stdout) \cap WarningTags # {} THEN "FAIL" ELSE "PASS"

\* overall_status = "PASS"
InitialStatus == "PASS"

\* 4. the ration table, 5. the ratios, and the start of 6.
cmd_check_ratios ==
  /\ pc = "contrib"
  /\ Len(L.table_rows) = Len(L.diet_data)
  /\ stdout' = stdout \o <<"ration table", "rule">>
  /\ L' = [cmd |-> "check", standards_df |-> L.standards_df, feeds_df |-> L.feeds_df,
           animal_std |-> L.animal_std, diet_data |-> L.diet_data,
           total_qty |-> L.total_qty, total_nutrients |-> L.total_nutrients,
           table_rows |-> L.table_rows,
           ca_p_ratio |-> Ratio(L.total_nutrients.Ca, L.total_nutrients.P),
           me_cp_ratio |-> Ratio(L.total_nutrients.ME, L.total_nutrients.CP),
           tolerance |-> FDiv(L.animal_std.Tolerance_Pct, Num(100)),
           comp_rows |-> <<>>, overall_status |-> InitialStatus]
  /\ pc' = "compare"
  /\ UNCHANGED <<args, fs, stderr, exit_code, prev>>

\* target == '-' or pd.isna(target)
NoTarget(target) == target = Dash \/ IsNaN(target)

\* the branch of the if / elif / else on low <= calc <= high
Status(calc, target, tolerance) ==
  LET low == FMul(target, FSub(Num(1), tolerance))
      high == FMul(target, FAdd(Num(1), tolerance))
  IN  IF FLe(low, calc) /\ FLe(calc, high) THEN "OK"
      ELSE IF FLt(calc, low) THEN "LOW"
      ELSE "HIGH"

\* a verdict that only a LOW nutrient turns to FAIL
VerdictLowOnly(overall_status, status) ==
  IF status = "LOW" THEN "FAIL" ELSE overall_status

\* overall_status after a nutrient of the given status
Verdict(overall_status, status) ==
  IF status \in {"LOW", "HIGH"} THEN "FAIL" ELSE overall_status

\* 6. one pass of the loop over comparison_data
cmd_check_compare ==
  /\ pc = "compare"
  /\ Len(L.comp_rows) < Len(Labels)
  /\ LET i == Len(L.comp_rows) + 1
         label == Labels[i]
         calc == L.total_nutrients[label]
         target == Targets(L.animal_std)[i]
     IN  IF NoTarget(target)
         THEN /\ \E cs \in Fmt(calc, 2) :
                   L' = [L EXCEPT !.comp_rows =
                           Append(@, [label |-> label, calc |-> cs, target |-> Dash,
                                      status |-> "N/A", dev |-> Dash])]
              /\ UNCHANGED <<pc, stderr, exit_code>>
         ELSE LET status == Status(calc, target, L.tolerance)
              IN  IF status = "OK"
                  THEN /\ \E cs \in Fmt(calc, 2), ts \in Fmt(target, 2) :
                            L' = [L EXCEPT !.comp_rows =
                                    Append(@, [label |-> label, calc |-> cs, target |-> ts,
                                               status |-> status, dev |-> Dash])]
                       /\ UNCHANGED <<pc, stderr, exit_code>>
                  ELSE IF IsZero(target)
                  THEN /\ Uncaught("ZeroDivisionError")
                       /\ UNCHANGED L
                  ELSE /\ \E cs \in Fmt(calc, 2), ts \in Fmt(target, 2),
                             ds \in Fmt(FMul(FDiv(FSub(calc, target), target), Num(100)), 1) :
                            L' = [L EXCEPT
                                    !.comp_rows =
                                       Append(@, [label |-> label, calc |-> cs,
                                                  target |-> ts, status |-> status,
                                                  dev |-> ds]),
                                    !.overall_status = Verdict(@, status)]
                       /\ UNCHANGED <<pc, stderr, exit_code>>
  /\ UNCHANGED <<args, fs, stdout, prev>>

CaPHealthy(ca_p_ratio) == FLe(Rat(6, 5), ca_p_ratio) /\ FLe(ca_p_ratio, Rat(7, 2))

\* the balance table, the ratios and the final result
cmd_check_report ==
  /\ pc = "compare"
  /\ Len(L.comp_rows) = Len(Labels)
  /\ stdout' = stdout \o <<"Nutritional Balance", "balance table", "Ratios",
                           IF CaPHealthy(L.ca_p_ratio) THEN "Ca/P Ratio ok"
                                                       ELSE "Ca/P Ratio warning",
                           "Energy/Protein Ratio",
                           "FINAL RESULT: " \o L.overall_status>>
  /\ Return
  /\ UNCHANGED <<args, fs, L, prev>>

cmd_check ==
  \/ load_data
  \/ cmd_check_animal
  \/ cmd_check_parse
  \/ cmd_check_warn
  \/ cmd_check_contrib
  \/ cmd_check_ratios
  \/ cmd_check_compare
  \/ cmd_check_report

-----------------------------------------------------------------------------
(* main *)

main ==
  /\ pc = "main"
  /\ pc' = args.command
  /\ UNCHANGED <<args, fs, L, stdout, stderr, exit_code, prev>>

Init ==
  /\ args \in CheckArgs(AnimalIds, Tokens) \cup PearsonArgs \cup DiluteArgs
  /\ fs \in FsStates
  /\ pc = "main"
  /\ L = NoLocals
  /\ stdout = <<>>
  /\ stderr = ""
  /\ exit_code = Running
  /\ prev = NoRun

Next == main \/ cmd_check \/ cmd_pearson \/ cmd_dilute

Spec == Init /\ [][Next]_vars

-----------------------------------------------------------------------------
(* Two runs of check, one after the other, over the same data files: the   *)
(* second starts when the first has completed, and prev keeps what the     *)
(* first reported.                                                         *)

Outcome ==
  [run |-> TRUE,
   targets |-> Targets(L.animal_std),
   tolerance |-> L.animal_std.Tolerance_Pct,
   total_nutrients |-> L.total_nutrients,
   statuses |-> [i \in 1..Len(L.comp_rows) |-> L.comp_rows[i].status],
   overall_status |-> L.overall_status,
   warnings |-> Range(stdout) \cap WarningTags]

Again ==
  /\ pc = "exited"
  /\ args.command = "check"
  /\ exit_code = <<0>>
  /\ prev' = Outcome
  /\ args' \in CheckArgs(PairAnimalIds, PairTokens)
  /\ pc' = "main"
  /\ L' = NoLocals
  /\ stdout' = <<>>
  /\ stderr' = ""
  /\ exit_code' = Running
  /\ UNCHANGED fs

InitTwoRuns ==
  /\ args \in CheckArgs(PairAnimalIds, PairTokens)
  /\ fs \in FsStates
  /\ pc = "main"
  /\ L = NoLocals
  /\ stdout = <<>>
  /\ stderr = ""
  /\ exit_code = Running
  /\ prev = NoRun

NextTwoRuns == main \/ cmd_check \/ Again

SpecTwoRuns == InitTwoRuns /\ [][NextTwoRuns]_vars

-----------------------------------------------------------------------------
(* Properties *)

IsCheck == args.command = "check"
Has(field) == field \in DOMAIN L
Exited == pc = "exited"
Completed == Exited /\ exit_code = <<0>>

FinalLines == { i \in 1..Len(stdout) : stdout[i] \in {"FINAL RESULT: PASS", "FINAL RESULT: FAIL"} }

\* the target of nutrient i is absent: no Lysine_Target column, the text '-', or NaN
AbsentTarget(animal_std, i) ==
  IF i = 5 /\ "Lysine_Target" \notin DOMAIN animal_std THEN TRUE
  ELSE LET cell == <<animal_std.ME_Target, animal_std.CP_Target, animal_std.Ca_Target,
                     animal_std.P_Target, animal_std[IF i = 5 THEN "Lysine_Target" ELSE "ME_Target"]>>[i]
       IN  cell.k \in {"dash", "nan"}

\* C1: in cmd_check the verdict is PASS if and only if no nutrient with a defined
\* target has status LOW or HIGH, after every pass of the comparison loop and in
\* the FINAL RESULT line; a nutrient gets status N/A if and only if its target is
\* absent, and an N/A nutrient leaves the verdict as it was.
C1_VerdictIffNoLowHigh ==
  (IsCheck /\ Has("comp_rows")) =>
     /\ \A i \in 1..Len(L.comp_rows) :
           L.comp_rows[i].status = "N/A" <=> AbsentTarget(L.animal_std, i)
     /\ L.overall_status = "PASS" <=>
           \A i \in 1..Len(L.comp_rows) :
              ~AbsentTarget(L.animal_std, i) => L.comp_rows[i].status \notin {"LOW", "HIGH"}
     /\ Completed =>
           /\ Len(L.comp_rows) = 5
           /\ stdout[Len(stdout)] = "FINAL RESULT: " \o L.overall_status

\* a completed check with verdict PASS whose Lysine target is absent
C1_Witness ==
  /\ IsCheck /\ Completed
  /\ L.overall_status = "PASS"
  /\ L.comp_rows[5].status = "N/A"
  /\ L.comp_rows[1].status = "OK"

\* C2: for every nutrient with a defined target T, tolerance percent tau and total V,
\* the status is OK iff T*(1-tau/100) <= V <= T*(1+tau/100), LOW iff V is below the
\* window and HIGH iff V is above it.
C2_StatusIffWindow ==
  (IsCheck /\ Has("comp_rows")) =>
     \A i \in 1..Len(L.comp_rows) :
        LET T == Targets(L.animal_std)[i]
            tau == L.animal_std.Tolerance_Pct
            V == L.total_nutrients[Labels[i]]
            lo == FMul(T, FSub(Num(1), FDiv(tau, Num(100))))
            hi == FMul(T, FAdd(Num(1), FDiv(tau, Num(100))))
            status == L.comp_rows[i].status
        IN  ~AbsentTarget(L.animal_std, i) =>
              /\ status = "OK" <=> (FLe(lo, V) /\ FLe(V, hi))
              /\ status = "LOW" <=> FLt(V, lo)
              /\ status = "HIGH" <=> FGt(V, hi)

RECURSIVE SumSeq(_)
SumSeq(s) == IF s = <<>> THEN Num(0) ELSE FAdd(SumSeq(SubSeq(s, 1, Len(s) - 1)), s[Len(s)])

\* the value of a feed row for a nutrient
FeedValue(f, nutrient) ==
  CASE nutrient = "ME" -> f.ME_per_kg
    [] nutrient = "CP" -> f.CP_Pct
    [] nutrient = "Ca" -> f.Ca_Pct
    [] nutrient = "P" -> f.P_Pct
    [] nutrient = "Lysine" -> f.Lysine_Pct

\* quantity * feed value / 100 of the first k diet entries
EntryContribs(nutrient, k) ==
  [j \in 1..k |-> FDiv(FMul(L.diet_data[j].Qty, FeedValue(L.diet_data[j].Data, nutrient)),
                       Num(100))]

Perms(k) == { p \in [1..k -> 1..k] : \A a, b \in 1..k : p[a] = p[b] => a = b }

\* the total of a nutrient is the sum of the exact contributions of the entries
\* handled so far, in any order and over any split of them
TotalIsSum(nutrient) ==
  LET k == Len(L.table_rows)
      c == EntryContribs(nutrient, k)
  IN  /\ L.total_nutrients[nutrient] = SumSeq(c)
      /\ \A p \in Perms(k) : L.total_nutrients[nutrient] = SumSeq([j \in 1..k |-> c[p[j]]])
      /\ \A m \in 0..k :
            L.total_nutrients[nutrient] = FAdd(SumSeq(SubSeq(c, 1, m)), SumSeq(SubSeq(c, m + 1, k)))

LoopDone == IsCheck /\ Has("table_rows") /\ Len(L.table_rows) = Len(L.diet_data)

C4_PearsonDegenerateGuarded ==
  (args.command = "pearson" /\ Exited /\ ~IsNaN(args.target)
     /\ args.feed1 = args.target /\ args.feed2 = args.target) =>
     \/ /\ exit_code = <<0>>
        /\ IsZero(L.diff1) /\ IsZero(L.diff2)
        /\ "Mix parts" \in Range(stdout)
     \/ /\ exit_code = <<1>>
        /\ stderr = "Error: degenerate input"

\* target lies between the two feed values, bounds included, in either order
Between(target, f1, f2) ==
  /\ ~IsNaN(target) /\ ~IsNaN(f1) /\ ~IsNaN(f2)
  /\ \/ f1.n * target.d <= target.n * f1.d /\ target.n * f2.d <= f2.n * target.d
     \/ f2.n * target.d <= target.n * f2.d /\ target.n * f1.d <= f1.n * target.d

\* C5: cmd_pearson reports blend parts if and only if the target lies between feed1
\* and feed2 inclusive; every other input ends with the fatal error before any part
\* is computed or printed.
C5_PearsonReportsIffBetween ==
  (args.command = "pearson" /\ Exited) =>
     /\ Between(args.target, args.feed1, args.feed2) <=>
           (exit_code = <<0>> /\ "Mix parts" \in Range(stdout))
     /\ ~Between(args.target, args.feed1, args.feed2) =>
           /\ exit_code = <<1>>
           /\ stderr = "Error: Target value must be between the two feed values."
           /\ L = NoLocals
           /\ stdout = <<>>

\* C6: cmd_dilute produces a result if and only if 0 < target < start; any other
\* input ends with a fatal error and no result; a result has dilution_factor =
\* start/target > 1 and water_parts = dilution_factor - 1 > 0.
C6_DiluteResultIffInRange ==
  (args.command = "dilute" /\ Exited) =>
     LET start == args.start
         target == args.target
         inRange == FLt(Num(0), target) /\ FLt(target, start)
     IN  /\ inRange <=> (exit_code = <<0>> /\ "Dilution Factor" \in Range(stdout))
         /\ ~inRange => (exit_code = <<1>> /\ stderr # "" /\ stdout = <<>>)
         /\ exit_code = <<0>> =>
               /\ L.dilution_factor = FDiv(start, target)
               /\ L.water_parts = FSub(L.dilution_factor, Num(1))
               /\ FGt(L.dilution_factor, Num(1))
               /\ FGt(L.water_parts, Num(0))

\* C7 (as amended): the Ca/P ratio equals totals.Ca / totals.P whenever totals.P > 0
\* and is 0 whenever totals.P is not greater than 0 (zero, negative or NaN); likewise
\* the ME/CP ratio with totals.ME and totals.CP.
C7_RatioGuardedByPositive ==
  (IsCheck /\ Has("ca_p_ratio")) =>
     LET t == L.total_nutrients
     IN  /\ FGt(t.P, Num(0)) => L.ca_p_ratio = FDiv(t.Ca, t.P)
         /\ ~FGt(t.P, Num(0)) => L.ca_p_ratio = Num(0)
         /\ FGt(t.CP, Num(0)) => L.me_cp_ratio = FDiv(t.ME, t.CP)
         /\ ~FGt(t.CP, Num(0)) => L.me_cp_ratio = Num(0)

\* C7 (as stated): the ratio equals the quotient whenever the divisor is not 0 and
\* is 0 exactly when the divisor is 0.
C7_RatioGuardedByNonzero ==
  (IsCheck /\ Has("ca_p_ratio")) =>
     LET t == L.total_nutrients
     IN  /\ ~IsZero(t.P) => L.ca_p_ratio = FDiv(t.Ca, t.P)
         /\ L.ca_p_ratio = Num(0) <=> IsZero(t.P)
         /\ ~IsZero(t.CP) => L.me_cp_ratio = FDiv(t.ME, t.CP)
         /\ L.me_cp_ratio = Num(0) <=> IsZero(t.CP)

\* the ratios are computed for a diet whose P total is negative, with a Ca total
\* that is not 0, and whose CP total is negative
C7_Witness ==
  /\ IsCheck /\ Has("ca_p_ratio")
  /\ FLt(L.total_nutrients.P, Num(0))
  /\ ~IsZero(L.total_nutrients.Ca)
  /\ L.ca_p_ratio = Num(0)
  /\ FLt(L.total_nutrients.CP, Num(0))
  /\ L.me_cp_ratio = Num(0)

\* the messages of the fatal errors the commands raise themselves
FatalErrors ==
  {"Error: Standards file not found", "Error: Feeds file not found",
   "Error reading CSV files", "Error: Animal ID not found.",
   "Error: Invalid diet format", "Error: Feed ID not found.",
   "Error: Target value must be between the two feed values.",
   "Error: Target concentration must be lower than start concentration for dilution.",
   "Error: Target cannot be zero."}

ResultTags == {"FINAL RESULT: PASS", "FINAL RESULT: FAIL", "Mix parts", "Add water parts"}

\* C8: every invocation ends either completed with exit code 0 (check: with one
\* verdict printed) or in one of the fatal errors, with its message, a non-zero exit
\* code and no verdict or result printed.
C8_TwoOutcomes ==
  Exited =>
     \/ /\ exit_code = <<0>>
        /\ stderr = ""
        /\ IsCheck => Cardinality(FinalLines) = 1
     \/ /\ exit_code # <<0>>
        /\ stderr \in FatalErrors
        /\ Range(stdout) \cap ResultTags = {}

SameInputs ==
  /\ prev.run
  /\ prev.targets = Targets(L.animal_std)
  /\ prev.tolerance = L.animal_std.Tolerance_Pct
  /\ prev.total_nutrients = L.total_nutrients

\* C9: two runs of check that agree on the animal's targets and tolerance and on
\* the nutrient totals report the same per-nutrient statuses and the same verdict,
\* whichever warnings either run printed.
C9_WarningsDoNotInfluence ==
  (IsCheck /\ Completed /\ SameInputs) =>
     /\ prev.statuses = [i \in 1..Len(L.comp_rows) |-> L.comp_rows[i].status]
     /\ prev.overall_status = L.overall_status

\* two completed runs that agree on targets, tolerance and totals and printed
\* different warnings
C9_Witness ==
  /\ IsCheck /\ Completed /\ SameInputs
  /\ prev.warnings # Range(stdout) \cap WarningTags
  /\ "Constraint Warning" \in prev.warnings
  /\ "Warning: Total diet quantity" \in Range(stdout)

\* C10: once the animal and every diet entry have resolved, cmd_check runs to
\* completion and prints exactly one FINAL RESULT line, a target of 0 included.
C10_AlwaysFinalResult ==
  (IsCheck /\ Exited /\ Has("total_nutrients")) =>
     /\ exit_code = <<0>>
     /\ Cardinality(FinalLines) = 1

====
